---- MODULE Spec2Model ----
(***************************************************************************)
(* taiwan-stock-ai-bot: the scan loop (main.py), its quota counters, the   *)
(* Discord notifier with its dedup table (modules/notifier.py) and the     *)
(* rate-limited FinMind client (modules/finmind_client.py).                *)
(*                                                                         *)
(* Time is counted in ticks of time.time().  The values read from the      *)
(* environment by config.py are scaled down to a few ticks / a few sends.  *)
(***************************************************************************)
EXTENDS Integers, Sequences, FiniteSets, TLC

\* ---------------------------------------------------------------- bounds
NumStocks == 3        \* size of the universe; candidate ids are 1..NumStocks in universe order
MaxTicks  == 2        \* ticks of time.time() explored after process start
MaxIter   == 2        \* iterations of the while loop explored
NumThreads == 2       \* threads calling get_data concurrently
MaxValue  == 2        \* closes and moving averages take the values 1..MaxValue
MaxList   == 2        \* candidates a list source yields at most
MaxDay    == 2        \* calendar days explored
FetchTicks == 4       \* ticks of time.time() explored by the fetch client
MaxFetches == 2       \* consecutive calls of a fetch function explored
MaxRounds == 21       \* iterations explored when the shared context is followed

\* ------------------------------------------- configuration (config.py), scaled
MAX_SIGNAL_PER_STOCK == 1
MAX_SIGNAL_TOTAL     == 2
BATCH_SIZE           == 2
DEDUP_WINDOW_SEC     == 2
REFRESH_EVERY        == 10
FINMIND_QPS          == 4
TicksPerSecond       == 4     \* the resolution of the clock
LOOKBACK             == 2     \* strategy_technical's window of 20 observations, scaled
FUND_THRESHOLD       == 3     \* strategy_fundamental's 1500 lots, scaled
POS_THRESHOLD        == 80    \* pos_threshold = 0.80, in hundredths
VolumeAvg            == 5     \* the Volume_avg of the last row
MAX_PRICE            == 2     \* max_price = 1500.0, scaled
SCAN_LIMIT           == 2     \* the limit scan_loop hands to the prefilter, scaled
SCAN_MAX_CHECKS      == 2     \* its max_checks = 300, scaled


Min(a, b) == IF a < b THEN a ELSE b
Max(a, b) == IF a > b THEN a ELSE b

\* time.time() at process start lies far after the epoch (0.0): at least one
\* dedup window after it, so a hash never seen (last = 0.0) is let through
StartTime == DEDUP_WINDOW_SEC
MaxTime   == StartTime + MaxTicks
FetchMaxTime == StartTime + FetchTicks
Threads == 1..NumThreads
Values == 1..MaxValue
\* volumes of the last row: below, at and above 1.8 times VolumeAvg
Volumes == {(18 * VolumeAvg) \div 10 - 1, (18 * VolumeAvg) \div 10, (18 * VolumeAvg) \div 10 + 1}

\* ------------------------------------------------------------ dictionaries
\* dict.get(k, default)
Get(d, k, default) == IF k \in DOMAIN d THEN d[k] ELSE default
\* d[k] = v
Put(d, k, v) == [x \in (DOMAIN d) \cup {k} |-> IF x = k THEN v ELSE d[x]]
EmptyDict == [x \in {} |-> 0]

RECURSIVE SumOver(_, _)
SumOver(d, S) == IF S = {} THEN 0
                 ELSE LET k == CHOOSE k \in S : TRUE IN d[k] + SumOver(d, S \ {k})
\* sum(sent_today.values())
SumValues(d) == SumOver(d, DOMAIN d)

\* ---------------------------------------------------------------- messages
\* the text composed by process_stock: the candidate and count + 1; the strategy
\* names, the price and the reasons are taken to be the same from one evaluation
\* of a candidate to the next (the price history is read from the day's cache)
SignalMsg(id, n) == [kind |-> "signal", id |-> id, n |-> n]
\* the text of today_summary(): determined by the rows of the signals table
SummaryMsg(rows) == [kind |-> "summary", rows |-> rows]
NoMsg == [kind |-> "none"]

\* sha256 of the text: equal texts give equal digests, different texts different ones
_hash_msg(m) == <<"sha256", m>>

VARIABLES
    pc,          \* position of scan_loop
    stocks,      \* the active candidate list (ids, in universe order)
    status,      \* per task of the iteration: "new", "scheduled", "done"
    wave_lo,     \* first task (1-based) of the current wave: the loop variable i
    failed,      \* an evaluation of the current wave let an exception escape
    loop_idx,    \* loop_idx
    sent_today,  \* main.sent_today: {stock_id: count}
    signals,     \* rows of the signals table, written by log_signal
    _seen,       \* notifier._seen: {hash: time of the last let-through send}
    now,         \* time.time()
    webhook,     \* config.DISCORD_WEBHOOK is a non-empty string
    last,        \* history: what the last evaluation or summary did
    lastThrough, \* history: per text, the time of the last call that was let through
    min_interval, \* _limiter.min_interval
    lock,        \* _limiter.lock: the thread holding it, 0 when free
    _last,       \* _limiter._last
    tpc,         \* per thread: its position in get_data / _RateLimiter.wait
    wake,        \* per thread: the time its time.sleep may return
    attempt,     \* per thread: 1 for the verified request, 2 for the verify=False one
    result,      \* per thread: how its last call of get_data ended
    grants,      \* history: the times of the last two grants, oldest first
    granted,     \* history, per thread: it holds a grant it has not yet used for a request
    bare,        \* history: the upstream requests that went out without a grant of their own
    queue,       \* history: the threads inside wait() and not yet granted, in arrival order
    overtaken,   \* history, per thread in wait(): the time of the first grant to a later arrival, else 0
    rpc,         \* one evaluation taken step by step: its position in process_stock
    kwargs,      \* the keyword options process_stock hands to run_all_strategies
    requests,    \* requests issued so far by the evaluation's call of get_data
    http,        \* how the last of these requests was answered
    fund_data,   \* process_stock's fund_data
    news_ranked, \* process_stock's news_ranked
    df,          \* process_stock's df, as the technical rule reads it
    results,     \* run_all_strategies' results
    raisedAt,    \* the step whose exception ended the evaluation, "none" if none
    cache_file,  \* stock_list.CACHE_FILE: whether it exists, its rows, the day of its mtime
    today,       \* the calendar day
    use_cache,   \* the argument of the last call of get_all_stocks
    returned,    \* what that call returned
    contacted,   \* history: the sources that call consulted and what each yielded
    stock_list,  \* get_stocks_under_1500's stock_list
    limit,       \* its limit (0 also stands for None)
    max_checks,  \* its max_checks
    batch,       \* what the batched quote source does, and the prices it knows
    serial,      \* the prices get_latest_close_fast knows, 0 for None
    prefiltered, \* what the call returned, the tier that produced it, the probes made
    fetcher,     \* the fetch function being called, "none" before the first call
    ca_bundle,   \* TWSE_CA_BUNDLE or REQUESTS_CA_BUNDLE names an existing file
    sent,        \* history: the requests of this call, each with its verify mode and answer
    ended,       \* how the call ended: "no" while it runs, "returned", "raised"
    fetches,     \* the calls begun so far
    aliases_map, \* scan_loop's aliases_map: the ids that have an entry
    refreshes,   \* history: the periodic refreshes, when each ran and whether it went through
    df_price,    \* BacktestEngine.df_price: the rows, each a date and a close
    strategy_func, \* BacktestEngine.strategy_func is not None
    rows_done,   \* run_backtest's i: the rows its loop has finished
    position,    \* BacktestEngine.position: empty for None, else the one open position
    trades,      \* BacktestEngine.trades
    signal,      \* the action of the signal the strategy returned last, "none" before
    opened,      \* history: the positions opened so far
    bpc          \* position of run_backtest: "idle", "loop", "returned", "raised"

orderVars == <<granted, bare, queue, overtaken>>
fetchVars == <<min_interval, lock, _last, tpc, wake, attempt, result, grants, orderVars>>
evalVars  == <<rpc, kwargs, requests, http, fund_data, news_ranked, df, results, raisedAt>>
universeVars == <<cache_file, today, use_cache, returned, contacted>>
prefilterVars == <<stock_list, limit, max_checks, batch, serial, prefiltered>>
sslVars == <<fetcher, ca_bundle, sent, ended, fetches>>
ctxVars == <<aliases_map, refreshes>>
backtestVars == <<df_price, strategy_func, rows_done, position, trades, signal, opened, bpc>>
callVars  == <<evalVars, universeVars, prefilterVars, sslVars, ctxVars, backtestVars>>

vars == <<pc, stocks, status, wave_lo, failed, loop_idx, sent_today, signals,
          _seen, now, webhook, last, lastThrough, fetchVars, callVars>>

loopVars   == <<pc, stocks, status, wave_lo, failed, loop_idx>>
ledgerVars == <<sent_today, signals, _seen, last, lastThrough>>

\* ---------------------------------------------------------------- notifier
\* notifier.send_discord_message, line 36: the dedup test
WithinWindowInclusive(t, prev) == t - prev <= DEDUP_WINDOW_SEC
WithinWindow(t, prev) == t - prev < DEDUP_WINDOW_SEC

\* lines 33-37: is the call suppressed as a duplicate
Suppressed(seen, m, t) == WithinWindow(t, Get(seen, _hash_msg(m), 0))

\* lines 36-38: the dedup table after the call
SeenAfterAlways(seen, m, t) == Put(seen, _hash_msg(m), t)
SeenAfter_unrecorded(seen, m, t) == seen
SeenAfter(seen, m, t) ==
    IF Suppressed(seen, m, t) THEN seen ELSE Put(seen, _hash_msg(m), t)

\* lines 25-57: what the call does with the text.  url: the webhook resolved at
\* lines 41-45 is non-empty; post: "ok" (200/204), "fail" (other status or exception)
send_discord_message(seen, m, t, url, post) ==
    IF Suppressed(seen, m, t) THEN "dup"
    ELSE IF ~url THEN "nowebhook"
    ELSE IF post = "ok" THEN "posted" ELSE "postfail"

\* main.safe_send: the outcome for the text, "terminal" when it is only printed
safe_send(seen, m, t, post) ==
    IF m = NoMsg THEN "empty"
    ELSE IF ~webhook THEN "terminal"
    ELSE send_discord_message(seen, m, t, webhook, post)

\* main.safe_send: the dedup table after it
SeenAfterSafeSend(seen, m, t) ==
    IF m = NoMsg \/ ~webhook THEN seen ELSE SeenAfter(seen, m, t)

\* outcomes of safe_send in which send_discord_message was called / let the text through
CallOutcomes    == {"dup", "nowebhook", "posted", "postfail"}
ThroughOutcomes == {"nowebhook", "posted", "postfail"}

\* history: the time of the last let-through call per text
ThroughAfter(m, t, out) ==
    IF out \in ThroughOutcomes THEN Put(lastThrough, m, t) ELSE lastThrough

\* ---------------------------------------------------------- strategy router
RuleNames == {"technical", "fundamental", "news"}
\* the sets of rules whose condition holds that are explored: none, one, all
RuleSets == {{}, {"technical"}, RuleNames}
\* the keyword options main.process_stock passes to run_all_strategies (line 58)
RouterKwargs == {"pos_threshold"}

\* strategy_router.run_all_strategies: rules is the set of rules whose condition
\* holds.  The call of strategy_news at lines 149-153 passes pos_threshold by name
\* and again inside **kwargs: with pos_threshold among the options it is a TypeError
run_all_strategies(kw, rules) ==
    IF "pos_threshold" \in kw
    THEN [raised |-> TRUE, triggered |-> {}]
    ELSE [raised |-> FALSE, triggered |-> rules]

\* ------------------------------------------------------------ the three rules
\* the price frame as strategy_technical reads it: the close column, MA5 and MA20
\* of the last two rows (y: iloc[-2], t: iloc[-1]), volume and Volume_avg of the
\* last row; fetch_price._normalize_price_df supplies every one of these columns
Frames ==
    {[close |-> c, yMA5 |-> a, yMA20 |-> b, tMA5 |-> x, tMA20 |-> y,
      volume |-> v, Volume_avg |-> VolumeAvg] :
        c \in UNION {[1..n -> Values] : n \in LOOKBACK..(LOOKBACK + 2)},
        a \in Values, b \in Values, x \in Values, y \in Values, v \in Volumes}
NoFrame == [close |-> <<>>]
\* frames with a rising close and a golden cross, one per volume
SampleFrames ==
    {d \in Frames : /\ d.close = [i \in 1..(LOOKBACK + 1) |-> IF i > LOOKBACK THEN 2 ELSE 1]
                    /\ d.yMA5 = 1 /\ d.yMA20 = 2 /\ d.tMA5 = 2 /\ d.tMA20 = 1}

RECURSIVE MaxOf(_, _, _)
\* max of column[lo..hi]
MaxOf(column, lo, hi) ==
    IF lo >= hi THEN column[hi] ELSE Max(column[lo], MaxOf(column, lo + 1, hi))

\* strategy_technical, line 51
golden_cross(d) == d.yMA5 < d.yMA20 /\ d.tMA5 > d.tMA20
\* line 56: volume > Volume_avg * 1.8
vol_ok(d) == 10 * d.volume > 18 * d.Volume_avg
\* lines 59-60: close.iloc[-21:-1].max(), the rows before the last one
past20_high(d) == MaxOf(d.close, Len(d.close) - LOOKBACK, Len(d.close) - 1)
breakout_high(d) == d.close[Len(d.close)] > past20_high(d)

\* line 63
ok_cnt(d) == (IF golden_cross(d) THEN 1 ELSE 0) + (IF vol_ok(d) THEN 1 ELSE 0)
             + (IF breakout_high(d) THEN 1 ELSE 0)

\* strategy_technical(df): lines 44-45 and 64
strategy_technical_two_of_three(d) ==
    [strategy |-> "technical",
     triggered |-> (Len(d.close) >= LOOKBACK + 1 /\ ok_cnt(d) >= 2)]
strategy_technical(d) ==
    [strategy |-> "technical",
     triggered |-> (/\ Len(d.close) >= LOOKBACK + 1
                    /\ golden_cross(d) /\ vol_ok(d) /\ breakout_high(d))]

\* the columns strategy_fundamental reads, lines 92-94
Categories == {"Foreign_Investor", "Investment_Trust", "Dealer_self"}
\* a category's net volume summed over the last three rows, in lots (scaled)
Nets == {-1, 0, 1, 2}

\* fund-flow frames: the number of rows and, per category column the frame has,
\* its net volume summed over the last three rows; None when get_fund_flow has
\* nothing.  get_fund_flow builds its frames with all three columns
\* (fetch_fundamental.py lines 120-127)
NoFund == [len |-> 0, present |-> FALSE, net |-> [c \in Categories |-> 0]]
FundFrames == {[len |-> n, present |-> TRUE, net |-> t] :
                  n \in {2, 3}, t \in [Categories -> Nets]}
\* frames that lack at least one of the three columns
SparseFundFrames ==
    {[len |-> n, present |-> TRUE, net |-> t] :
        n \in {2, 3},
        t \in UNION {[S -> Nets] : S \in (SUBSET Categories) \ {Categories}}}

\* lines 92-94: recent.get(column) is None for a column the frame lacks,
\* pd.to_numeric(None, errors='coerce') is the scalar nan, and nan has no fillna
fundamental_raises(f) ==
    f.present /\ f.len >= 3 /\ DOMAIN f.net # Categories

\* lines 92-96: fi + it + ds
total_buy(f) == SumOver(f.net, DOMAIN f.net)

\* strategy_fundamental(fund_data) where it returns: lines 87-88 and 96-97
strategy_fundamental(f) ==
    [strategy |-> "fundamental",
     triggered |-> (f.present /\ f.len >= 3 /\ total_buy(f) > FUND_THRESHOLD)]

\* ranked news of a candidate: sentiment and score (in hundredths) per item
NewsLists ==
    {<<>>,
     <<[sentiment |-> "NEGATIVE", score |-> POS_THRESHOLD + 1]>>,
     <<[sentiment |-> "POSITIVE", score |-> POS_THRESHOLD - 1]>>,
     <<[sentiment |-> "NEGATIVE", score |-> POS_THRESHOLD + 1],
       [sentiment |-> "POSITIVE", score |-> POS_THRESHOLD]>>}

\* news lists a caller can pass: up to two items, each positive or negative and
\* scored below, at or above the default threshold
NewsItems == {[sentiment |-> a, score |-> x] :
                a \in {"POSITIVE", "NEGATIVE"},
                x \in {POS_THRESHOLD - 1, POS_THRESHOLD, POS_THRESHOLD + 1}}
NewsCases == {<<>>} \cup {<<a>> : a \in NewsItems}
             \cup {<<a, b>> : a \in NewsItems, b \in NewsItems}

\* strategy_news(news_sentiments, pos_threshold): lines 116-135
strategy_news_any_item(news, pos_threshold) ==
    [strategy |-> "news",
     triggered |-> (\E i \in DOMAIN news : news[i].score >= pos_threshold)]
strategy_news(news, pos_threshold) ==
    LET pos_items == {i \in DOMAIN news : news[i].sentiment = "POSITIVE"} IN
    [strategy |-> "news",
     triggered |-> (\E i \in pos_items : news[i].score >= pos_threshold)]

\* ------------------------------------------------------------ process_stock
\* main.process_stock, line 41: the quota pre-check
QuotaReachedOffByOne(count, total) ==
    count > MAX_SIGNAL_PER_STOCK \/ total > MAX_SIGNAL_TOTAL
QuotaReachedPerStockOnly(count, total) == count >= MAX_SIGNAL_PER_STOCK
QuotaReached(count, total) ==
    count >= MAX_SIGNAL_PER_STOCK \/ total >= MAX_SIGNAL_TOTAL

\* lines 44, 79: the steps whose exception the try block catches
Steps == {"price", "fund", "news", "router", "send", "log"}
CaughtBeforeLog(step) == step \in Steps \ {"log"}
Caught(step) == step \in Steps

\* the record of one evaluation (op "eval") or one summary (op "summary")
\*   end: "quota", "nodata", "raised", "notrigger", "sent", "logfail"
\*   again: the text had been let through by an earlier call
OpRec(op, id, end, notify, m) ==
    [op |-> op, id |-> id, end |-> end, notify |-> notify, msg |-> m,
     again |-> (notify \in CallOutcomes /\ m \in DOMAIN lastThrough)]
NoOp == [op |-> "none", id |-> 0, end |-> "none", notify |-> "none", msg |-> NoMsg,
         again |-> FALSE]

\* task i leaves process_stock: normally, or with the exception of `step`
Leave(i, step) ==
    /\ status' = [status EXCEPT ![i] = "done"]
    /\ failed' = (failed \/ (step # "none" /\ ~Caught(step)))

\* line 122: gather starts the tasks of the wave in the order of its arguments,
\* and a task that never awaits runs to its end before the next one starts
RunsNext_any_order(i) == TRUE
RunsNext(i) == \A j \in 1..(i - 1) : status[j] # "scheduled"

\* process_stock(stock_id, ...) for task i; kw: the options handed to the router
ProcessStock(i, kw) ==
    LET id    == stocks[i]
        count == Get(sent_today, id, 0)
        total == SumValues(sent_today)
    IN
    /\ pc = "running"
    /\ status[i] = "scheduled"
    /\ RunsNext(i)
    /\ UNCHANGED <<pc, stocks, wave_lo, loop_idx, now, webhook, fetchVars, callVars>>
    /\ IF QuotaReached(count, total)
       THEN /\ Leave(i, "none")
            /\ last' = OpRec("eval", id, "quota", "none", NoMsg)
            /\ UNCHANGED <<sent_today, signals, _seen, lastThrough>>
       ELSE
         \/ \* lines 46-58: a fetch, the linking/ranking or the router raises
            \E step \in {"price", "fund", "news", "router"} :
              /\ Leave(i, step)
              /\ last' = OpRec("eval", id, "raised", "none", NoMsg)
              /\ UNCHANGED <<sent_today, signals, _seen, lastThrough>>
         \/ \* line 47: no price history, or fewer than 20 observations
            /\ Leave(i, "none")
            /\ last' = OpRec("eval", id, "nodata", "none", NoMsg)
            /\ UNCHANGED <<sent_today, signals, _seen, lastThrough>>
         \/ \* lines 58-77
            \E rules \in RuleSets :
              LET res == run_all_strategies(kw, rules)
                  m   == SignalMsg(id, count + 1)
              IN
              IF res.raised
              THEN /\ Leave(i, "router")
                   /\ last' = OpRec("eval", id, "raised", "none", NoMsg)
                   /\ UNCHANGED <<sent_today, signals, _seen, lastThrough>>
              ELSE IF res.triggered = {}
              THEN /\ Leave(i, "none")
                   /\ last' = OpRec("eval", id, "notrigger", "none", NoMsg)
                   /\ UNCHANGED <<sent_today, signals, _seen, lastThrough>>
              ELSE \E post \in {"ok", "fail"}, logres \in {"ok", "raise"} :
                   LET out == safe_send(_seen, m, now, post) IN
                   /\ _seen' = SeenAfterSafeSend(_seen, m, now)
                   /\ lastThrough' = ThroughAfter(m, now, out)
                   /\ IF logres = "ok"
                      THEN /\ signals' = signals \cup {<<id, count + 1>>}
                           /\ sent_today' = Put(sent_today, id, count + 1)
                           /\ Leave(i, "none")
                           /\ last' = OpRec("eval", id, "sent", out, m)
                      ELSE /\ UNCHANGED <<signals, sent_today>>
                           /\ Leave(i, "log")
                           /\ last' = OpRec("eval", id, "logfail", out, m)

\* ---------------------------------------------------------------- scan_loop
Universe == [i \in 1..NumStocks |-> i]
\* what the prefilter hands to the loop: the first candidates of the universe
\* (candidate ids are interchangeable, so the sub-lists that skip one add nothing)
ActiveSets == {SubSeq(Universe, 1, n) : n \in 0..NumStocks}

\* what a request of a news fetch can give, and what its retry without
\* certificate verification can give
NewsAnswers == {"ok", "ssl", "other"}
RetryAnswers == {"ok", "fail"}

\* fetch_udn_news lines 25-36, fetch_cnyes_headlines lines 21-49: the retry
\* runs inside the SSLError handler, where the except Exception clause of the
\* same try statement does not apply; every other failure is printed
news_fetch_raises(first, retry) == first = "ssl" /\ retry = "fail"

\* lines 85-110: news, universe, aliases, prefilter; none of it is guarded
Bootstrap ==
    /\ pc = "bootstrap"
    /\ \E first \in NewsAnswers, retry \in RetryAnswers :
         IF news_fetch_raises(first, retry)
         THEN /\ pc' = "exit"
              /\ UNCHANGED stocks
         ELSE /\ stocks' \in ActiveSets
              /\ pc' = "tasks"
    /\ UNCHANGED <<status, wave_lo, failed, loop_idx, now, webhook>>
    /\ UNCHANGED <<ledgerVars, fetchVars, callVars>>

\* line 120: one coroutine object per active candidate
MakeTasks ==
    /\ pc = "tasks"
    /\ status' = [i \in 1..Len(stocks) |-> "new"]
    /\ wave_lo' = 1
    /\ failed' = FALSE
    /\ pc' = "gather"
    /\ UNCHANGED <<stocks, loop_idx, now, webhook>>
    /\ UNCHANGED <<ledgerVars, fetchVars, callVars>>

\* line 122: the slice tasks[i:i + BATCH_SIZE]
WaveAll(lo, n) == lo..n
Wave(lo, n) == lo..Min(lo + BATCH_SIZE - 1, n)

\* lines 121-122: the next wave is handed to asyncio.gather, or the for loop ends
Gather ==
    /\ pc = "gather"
    /\ IF wave_lo > Len(stocks)
       THEN /\ pc' = "summary"
            /\ UNCHANGED status
       ELSE /\ pc' = "running"
            /\ status' = [i \in 1..Len(stocks) |->
                            IF i \in Wave(wave_lo, Len(stocks)) /\ status[i] = "new"
                            THEN "scheduled" ELSE status[i]]
    /\ UNCHANGED <<stocks, wave_lo, failed, loop_idx, now, webhook>>
    /\ UNCHANGED <<ledgerVars, fetchVars, callVars>>

\* line 122: gather returns when no task of the wave is still scheduled; an
\* exception that escaped a task is raised in scan_loop, which has no handler
WaveDone ==
    /\ pc = "running"
    /\ \A i \in 1..Len(stocks) : status[i] # "scheduled"
    /\ IF failed
       THEN pc' = "exit" /\ UNCHANGED wave_lo
       ELSE pc' = "gather" /\ wave_lo' = wave_lo + BATCH_SIZE
    /\ UNCHANGED <<stocks, status, failed, loop_idx, now, webhook>>
    /\ UNCHANGED <<ledgerVars, fetchVars, callVars>>

\* lines 130-133: safe_send(today_summary()); a failure of the query is printed
Summary ==
    /\ pc = "summary"
    /\ pc' = "iter_end"
    /\ \/ /\ last' = OpRec("summary", 0, "raised", "none", NoMsg)
          /\ UNCHANGED <<_seen, lastThrough>>
       \/ \E post \in {"ok", "fail"} :
            LET m   == SummaryMsg(Cardinality(signals))
                out == safe_send(_seen, m, now, post)
            IN /\ _seen' = SeenAfterSafeSend(_seen, m, now)
               /\ lastThrough' = ThroughAfter(m, now, out)
               /\ last' = OpRec("summary", 0, "sent", out, m)
    /\ UNCHANGED <<stocks, status, wave_lo, failed, loop_idx, now, webhook>>
    /\ UNCHANGED <<sent_today, signals, fetchVars, callVars>>

\* line 137: a refresh is due after the n-th iteration
RefreshDue_one_late(n) == n % REFRESH_EVERY = 1
RefreshDue(n) == n % REFRESH_EVERY = 0

\* lines 135-155: count the iteration; every REFRESH_EVERY-th one re-acquires
\* the shared context inside a try block
IterEnd ==
    /\ pc = "iter_end"
    /\ loop_idx' = loop_idx + 1
    /\ IF RefreshDue(loop_idx')
       THEN \/ stocks' \in ActiveSets
            \/ UNCHANGED stocks
       ELSE UNCHANGED stocks
    /\ pc' = "sleep"
    /\ UNCHANGED <<status, wave_lo, failed, now, webhook>>
    /\ UNCHANGED <<ledgerVars, fetchVars, callVars>>

\* line 157, while fewer than n iterations are done
SleepWithin(n) ==
    /\ pc = "sleep"
    /\ loop_idx < n
    /\ pc' = "tasks"
    /\ UNCHANGED <<stocks, status, wave_lo, failed, loop_idx, now, webhook>>
    /\ UNCHANGED <<ledgerVars, fetchVars, callVars>>

Sleep == SleepWithin(MaxIter)

\* time passes while the loop sleeps: an iteration is short against a tick
Tick ==
    /\ pc = "sleep"
    /\ now < MaxTime
    /\ now' = now + 1
    /\ UNCHANGED <<loopVars, webhook>>
    /\ UNCHANGED <<ledgerVars, fetchVars, callVars>>

\* ------------------------------------------------------------- finmind_client
\* _RateLimiter.__init__, line 16: 1.0 / max(qps, 0.1), in ticks
MinIntervalOf(qps) == (10 * TicksPerSecond) \div Max(10 * qps, 1)

\* the values of FINMIND_QPS explored
QpsChoices == {2, FINMIND_QPS}

\* line 21: the with block is entered when the lock is free
LockFreeAlways(l) == TRUE
LockFree(l) == l = 0

\* line 25: the argument of time.sleep
SleepFor(dt) == min_interval - dt

\* what one session.get (with its adapter's retries) can give
Outcomes == {"data", "nodata", "402", "status", "badbody", "timeout", "ssl"}

\* get_data, lines 64-84: how the call ends on outcome o of request number k;
\* "retry" is the branch of the SSLError handler
AfterRequest(k, o) ==
    IF o = "data" THEN "data"
    ELSE IF o \in {"nodata", "402"} THEN "empty"
    ELSE IF k = 1 THEN (IF o = "ssl" THEN "retry" ELSE "empty")
    ELSE "raised"

\* _get_with_ssl_fallback retrying after a timeout as well
AfterFallback_any_failure(k, o) ==
    IF o \in {"data", "nodata", "badbody"} THEN "returned"
    ELSE IF k = 1 /\ o \in {"ssl", "timeout"} THEN "retry"
    ELSE "raised"

\* _get_with_ssl_fallback, lines 42-54: raise_for_status lets every error status
\* escape, the body is not read; only SSLError on request 1 reaches the handler
AfterFallback(k, o) ==
    IF o \in {"data", "nodata", "badbody"} THEN "returned"
    ELSE IF k = 1 /\ o = "ssl" THEN "retry"
    ELSE "raised"

\* get_json, lines 15-42: the requests it may issue, 3 with a CA bundle, else 2
LastRequest(ca) == IF ca THEN 3 ELSE 2

\* get_json: r.json() is returned; SSLError is passed over on every request
\* but the last, any other exception escapes
AfterGetJson(ca, k, o) ==
    IF o \in {"data", "nodata"} THEN "returned"
    ELSE IF o = "ssl" /\ k < LastRequest(ca) THEN "retry"
    ELSE "raised"

Fetchers == {"get_data", "_get_with_ssl_fallback", "get_json"}

\* how fetch function f goes on after answer o to its request number k
AfterAnswer(f, ca, k, o) ==
    IF f = "get_data"
    THEN (IF AfterRequest(k, o) \in {"data", "empty"} THEN "returned"
          ELSE AfterRequest(k, o))
    ELSE IF f = "_get_with_ssl_fallback" THEN AfterFallback(k, o)
    ELSE AfterGetJson(ca, k, o)

\* the verify argument of request number k: the default, the CA bundle
\* (get_json, line 32) or False
VerifyOf(f, ca, k) ==
    IF k = 1 THEN "on"
    ELSE IF f = "get_json" /\ ca /\ k = 2 THEN "bundle"
    ELSE "off"


\* ------------------------------------------------------------- stock_list
RECURSIVE SeqsUpTo(_, _)
\* the lists of at most n distinct elements of S
SeqsUpTo(S, n) ==
    IF n = 0 THEN {<<>>}
    ELSE LET shorter == SeqsUpTo(S, n - 1) IN
         shorter \cup {Append(l, x) : l \in shorter, x \in S}

NoRepeat(l) == \A i, j \in DOMAIN l : i # j => l[i] # l[j]

\* what a source can yield: a list of listed candidates, possibly empty (also
\* the result of a failed request, lines 86-87 and 110-111)
SourceLists == {l \in SeqsUpTo(1..MaxList, MaxList) : NoRepeat(l)}

\* lines 133-144: the built-in list
BuiltIn == <<1, 2>>

NoFile == [exists |-> FALSE, rows |-> <<>>, day |-> 0]
CacheFiles == {NoFile} \cup
              {[exists |-> TRUE, rows |-> l, day |-> d] : l \in SourceLists, d \in 0..1}

\* _load_cache_today, lines 43-55: the rows of a non-empty file last modified
\* today; None is <<>>
_load_cache_today(f, day) ==
    IF ~f.exists THEN <<>>
    ELSE IF f.rows = <<>> THEN <<>>
    ELSE IF f.day = day THEN f.rows
    ELSE <<>>

\* get_all_stocks line 119: is the cache looked at
ConsultsCacheAlways(u) == TRUE
ConsultsCache(u) == u

\* lines 119-122: the cached list the call returns, <<>> when it goes on
CacheHit(u, f, day) == IF ConsultsCache(u) THEN _load_cache_today(f, day) ELSE <<>>

\* lines 124-126: the sources consulted, given what each yields
ConsultedBoth(a, b) ==
    <<[source |-> "finmind", rows |-> a], [source |-> "twse", rows |-> b]>>
Consulted(a, b) ==
    IF a # <<>> THEN <<[source |-> "finmind", rows |-> a]>>
    ELSE <<[source |-> "finmind", rows |-> a], [source |-> "twse", rows |-> b]>>

\* lines 124-144: the list returned on a cache miss
FallbackEmpty(a, b) == IF a # <<>> THEN a ELSE b
Fallback(a, b) == IF a # <<>> THEN a ELSE IF b # <<>> THEN b ELSE BuiltIn

\* _save_cache, lines 58-65: the file after it; a failed write is swallowed
_save_cache(f, rows, day, written) ==
    IF written THEN [exists |-> TRUE, rows |-> rows, day |-> day] ELSE f

\* ------------------------------------------------- get_stocks_under_1500
\* a code that is not all digits, such as 00632R
NonNumeric == 0
\* line 167: str(sid).isdigit()
isdigit(sid) == sid # NonNumeric

\* the lists a caller can pass: distinct codes, numeric or not
StockLists == {l \in SeqsUpTo(0..MaxList, MaxList) : NoRepeat(l)}
\* a price per numeric code: 0 for unknown, else below or at max_price
PriceMaps == [1..MaxList -> {0, MAX_PRICE - 1, MAX_PRICE}]
NoPrices == [sid \in 1..MaxList |-> 0]

\* the batched source: it answers with the prices it knows, every one of its
\* requests fails (get_quote_batch then returns {}), or the tier raises
NoBatch == [does |-> "fails", price |-> NoPrices]
Batches == {[does |-> "answers", price |-> m] : m \in PriceMaps}
           \cup {NoBatch, [does |-> "raises", price |-> NoPrices]}

NoResult == [out |-> <<>>, tier |-> "none", probes |-> 0]

\* line 167
cand(l) == SelectSeq(l, isdigit)
\* line 168: limit if limit else len(cand)
target(lim, c) == IF lim # 0 THEN lim ELSE Len(c)
\* l[:n]
Take(l, n) == SubSeq(l, 1, Min(n, Len(l)))

\* lines 189, 213: the price is known and below max_price
Priced(price, sid) == price[sid] # 0 /\ price[sid] < MAX_PRICE

RECURSIVE BatchedWalk(_, _, _, _, _)
\* lines 186-192: the for loop from candidate i on
BatchedWalk(c, i, filtered, price, t) ==
    IF i > Len(c) THEN filtered
    ELSE LET f == IF Priced(price, c[i]) THEN Append(filtered, c[i]) ELSE filtered IN
         IF Len(f) >= t THEN f ELSE BatchedWalk(c, i + 1, f, price, t)

RECURSIVE SerialWalk(_, _, _, _, _, _)
\* lines 203-219: the for loop from candidate i on; the result and the probes made
SerialWalk(c, i, filtered, price, t, mc) ==
    IF i > Len(c) THEN [filtered |-> filtered, checks |-> i - 1]
    ELSE LET f == IF Priced(price, c[i]) THEN Append(filtered, c[i]) ELSE filtered IN
         IF Len(f) >= t \/ i >= mc THEN [filtered |-> f, checks |-> i]
         ELSE SerialWalk(c, i + 1, f, price, t, mc)

\* lines 202-227: the serial tier and the passthrough after it
SerialTier(c, price, t, mc) ==
    LET w == SerialWalk(c, 1, <<>>, price, t, mc) IN
    IF w.filtered # <<>>
    THEN [out |-> Take(w.filtered, t), tier |-> "serial", probes |-> w.checks]
    ELSE [out |-> Take(c, t), tier |-> "passthrough", probes |-> w.checks]

\* line 194: does the batched tier return what it collected
BatchedReturnsAlways(filtered) == TRUE
BatchedReturns(filtered) == filtered # <<>>

\* get_stocks_under_1500(stock_list=l, max_price=MAX_PRICE, limit=lim, max_checks=mc)
get_stocks_under_1500(l, lim, mc, b, sprice) ==
    LET c == cand(l)
        t == target(lim, c)
        filtered == BatchedWalk(c, 1, <<>>, b.price, t)
    IN
    IF l = <<>> THEN [out |-> <<>>, tier |-> "empty", probes |-> 0]
    ELSE IF b.does # "raises" /\ BatchedReturns(filtered)
    THEN [out |-> Take(filtered, t), tier |-> "batched", probes |-> 0]
    ELSE SerialTier(c, sprice, t, mc)

\* no step-by-step evaluation is under way
IdleEval ==
    /\ rpc = "idle"
    /\ kwargs = {}
    /\ requests = 0
    /\ http = "none"
    /\ fund_data = NoFund
    /\ news_ranked = <<>>
    /\ df = NoFrame
    /\ results = <<>>
    /\ raisedAt = "none"

\* get_all_stocks has not been called
IdleUniverse ==
    /\ cache_file = NoFile
    /\ today = 1
    /\ use_cache = FALSE
    /\ returned = <<>>
    /\ contacted = <<>>

\* get_stocks_under_1500 has not been called
IdlePrefilter ==
    /\ stock_list = <<>>
    /\ limit = 0
    /\ max_checks = 0
    /\ batch = NoBatch
    /\ serial = <<>>
    /\ prefiltered = NoResult

\* no fetch function has been called on its own
IdleSsl ==
    /\ fetcher = "none"
    /\ ca_bundle = FALSE
    /\ sent = <<>>
    /\ ended = "no"
    /\ fetches = 0

\* the loop's shared context is not followed
IdleCtx ==
    /\ aliases_map = {}
    /\ refreshes = <<>>

\* no backtest is run
IdleBacktest ==
    /\ df_price = <<>>
    /\ strategy_func = FALSE
    /\ rows_done = 0
    /\ position = <<>>
    /\ trades = <<>>
    /\ signal = "none"
    /\ opened = 0
    /\ bpc = "idle"

IdleCalls == IdleEval /\ IdleUniverse /\ IdlePrefilter /\ IdleSsl /\ IdleCtx /\ IdleBacktest

\* the limiter and the threads before the first call of get_data
InitFetch(qps) ==
    /\ min_interval = MinIntervalOf(qps)
    /\ lock = 0
    /\ _last = 0
    /\ tpc = [t \in Threads |-> "idle"]
    /\ wake = [t \in Threads |-> 0]
    /\ attempt = [t \in Threads |-> 1]
    /\ result = [t \in Threads |-> "none"]
    /\ grants = <<>>
    /\ granted = [t \in Threads |-> FALSE]
    /\ bare = {}
    /\ queue = <<>>
    /\ overtaken = [t \in Threads |-> 0]

Init ==
    /\ InitFetch(FINMIND_QPS)
    /\ IdleCalls
    /\ pc = "bootstrap"
    /\ stocks = <<>>
    /\ status = <<>>
    /\ wave_lo = 1
    /\ failed = FALSE
    /\ loop_idx = 0
    /\ sent_today = EmptyDict
    /\ signals = {}
    /\ _seen = EmptyDict
    /\ now = StartTime
    /\ webhook \in BOOLEAN
    /\ last = NoOp
    /\ lastThrough = EmptyDict

LoopSteps ==
    \/ Bootstrap
    \/ MakeTasks
    \/ Gather
    \/ WaveDone
    \/ Summary
    \/ IterEnd
    \/ Sleep
    \/ Tick

\* the program: process_stock calls the router as main.py line 58 does
Next ==
    \/ LoopSteps
    \/ \E i \in 1..Len(stocks) : ProcessStock(i, RouterKwargs)

Spec == Init /\ [][Next]_vars

\* the pipeline with the router's keyword options left open: every behaviour of
\* Spec is one of PipelineSpec, which also covers the steps behind the router call
PipelineNext ==
    \/ LoopSteps
    \/ \E i \in 1..Len(stocks), kw \in SUBSET RouterKwargs : ProcessStock(i, kw)

PipelineSpec == Init /\ [][PipelineNext]_vars

\* the places of scan_loop at which the process is running
Alive == {"bootstrap", "tasks", "gather", "running", "summary", "iter_end", "sleep"}

\* main.py lines 167-169: KeyboardInterrupt leaves asyncio.run and is caught;
\* the evaluations still scheduled are never run
Interrupt ==
    /\ pc \in Alive
    /\ pc' = "drain"
    /\ UNCHANGED <<stocks, status, wave_lo, failed, loop_idx, now, webhook>>
    /\ UNCHANGED <<ledgerVars, fetchVars, callVars>>

\* main.py lines 170-173: safe_send(today_summary()), any exception swallowed,
\* and the process ends
Drain ==
    /\ pc = "drain"
    /\ pc' = "stopped"
    /\ \/ /\ last' = OpRec("drain", 0, "raised", "none", NoMsg)
          /\ UNCHANGED <<_seen, lastThrough>>
       \/ \E post \in {"ok", "fail"} :
            LET m   == SummaryMsg(Cardinality(signals))
                out == safe_send(_seen, m, now, post)
            IN /\ _seen' = SeenAfterSafeSend(_seen, m, now)
               /\ lastThrough' = ThroughAfter(m, now, out)
               /\ last' = OpRec("drain", 0, "sent", out, m)
    /\ UNCHANGED <<stocks, status, wave_lo, failed, loop_idx, now, webhook>>
    /\ UNCHANGED <<sent_today, signals, fetchVars, callVars>>

DriverNext ==
    \/ Next
    \/ Interrupt
    \/ Drain

\* the program under an interrupt that can arrive at any time
DriverSpec == Init /\ [][DriverNext]_vars

fetchOnly == <<pc, stocks, status, wave_lo, failed, loop_idx, sent_today, signals,
               _seen, webhook, last, lastThrough, callVars>>

\* a thread calls get_data: line 65
Call(t) ==
    /\ tpc[t] = "idle"
    /\ tpc' = [tpc EXCEPT ![t] = "lock"]
    /\ attempt' = [attempt EXCEPT ![t] = 1]
    /\ result' = [result EXCEPT ![t] = "none"]
    /\ UNCHANGED <<min_interval, lock, _last, wake, grants, now, fetchOnly>>

\* wait, line 21
Acquire(t) ==
    /\ tpc[t] = "lock"
    /\ LockFree(lock)
    /\ lock' = t
    /\ tpc' = [tpc EXCEPT ![t] = "read"]
    /\ UNCHANGED <<min_interval, _last, wake, attempt, result, grants, now, fetchOnly>>

\* wait, lines 22-25: read the clock; sleep if the last grant is too recent
ReadClock(t) ==
    /\ tpc[t] = "read"
    /\ LET dt == now - _last IN
       IF dt < min_interval
       THEN /\ wake' = [wake EXCEPT ![t] = now + SleepFor(dt)]
            /\ tpc' = [tpc EXCEPT ![t] = "sleep"]
       ELSE /\ tpc' = [tpc EXCEPT ![t] = "set"]
            /\ UNCHANGED wake
    /\ UNCHANGED <<min_interval, lock, _last, attempt, result, grants, now, fetchOnly>>

\* wait, line 25: time.sleep returns, not before the requested time has passed
WakeUp(t) ==
    /\ tpc[t] = "sleep"
    /\ now >= wake[t]
    /\ tpc' = [tpc EXCEPT ![t] = "set"]
    /\ UNCHANGED <<min_interval, lock, _last, wake, attempt, result, grants, now, fetchOnly>>

\* wait, line 26 and the end of the with block: the grant
Grant(t) ==
    /\ tpc[t] = "set"
    /\ _last' = now
    /\ lock' = IF lock = t THEN 0 ELSE lock
    /\ grants' = IF grants = <<>> THEN <<now>> ELSE <<grants[Len(grants)], now>>
    /\ tpc' = [tpc EXCEPT ![t] = "get"]
    /\ UNCHANGED <<min_interval, wake, attempt, result, now, fetchOnly>>

\* lines 66-73 (request 1) and 77-82 (request 2)
Request(t) ==
    /\ tpc[t] = "get"
    /\ \E o \in Outcomes :
         LET r == AfterRequest(attempt[t], o) IN
         IF r = "retry"
         THEN /\ attempt' = [attempt EXCEPT ![t] = 2]
              /\ tpc' = [tpc EXCEPT ![t] = "lock"]
              /\ UNCHANGED result
         ELSE /\ result' = [result EXCEPT ![t] = r]
              /\ tpc' = [tpc EXCEPT ![t] = "idle"]
              /\ UNCHANGED attempt
    /\ UNCHANGED <<min_interval, lock, _last, wake, grants, now, fetchOnly>>

\* time passes
FetchTick ==
    /\ now < FetchMaxTime
    /\ now' = now + 1
    /\ UNCHANGED <<fetchVars, fetchOnly>>

\* the limiter is built from the configured rate
FetchInit ==
    /\ \E qps \in QpsChoices : InitFetch(qps)
    /\ IdleCalls
    /\ pc = "bootstrap"
    /\ stocks = <<>>
    /\ status = <<>>
    /\ wave_lo = 1
    /\ failed = FALSE
    /\ loop_idx = 0
    /\ sent_today = EmptyDict
    /\ signals = {}
    /\ _seen = EmptyDict
    /\ now = StartTime
    /\ webhook = FALSE
    /\ last = NoOp
    /\ lastThrough = EmptyDict

FetchNext ==
    \/ FetchTick
    \/ \E t \in Threads :
         \/ Call(t) /\ UNCHANGED orderVars
         \/ Acquire(t) /\ UNCHANGED orderVars
         \/ ReadClock(t) /\ UNCHANGED orderVars
         \/ WakeUp(t) /\ UNCHANGED orderVars
         \/ Grant(t) /\ UNCHANGED orderVars
         \/ Request(t) /\ UNCHANGED orderVars

\* threads calling get_data on the shared limiter
FetchSpec == FetchInit /\ [][FetchNext]_vars

\* ------------------------------------------- the upstream and its limiter
\* t is ahead of u in the arrival order q
Ahead(t, u, q) == \E i, j \in DOMAIN q : i < j /\ q[i] = t /\ q[j] = u

\* finmind_client.py line 65 or 76: the thread enters wait()
Arrives(t) ==
    /\ queue' = Append(queue, t)
    /\ UNCHANGED <<granted, bare, overtaken>>

\* line 26: the thread is granted; the threads that arrived before it and are
\* still inside wait() have been overtaken
IsGranted(u) ==
    LET NotU(x) == x # u IN
    /\ queue' = SelectSeq(queue, NotU)
    /\ granted' = [granted EXCEPT ![u] = TRUE]
    /\ overtaken' = [t \in Threads |->
                       IF t = u THEN 0
                       ELSE IF Ahead(t, u, queue) /\ overtaken[t] = 0 THEN now
                       ELSE overtaken[t]]
    /\ UNCHANGED bare

\* lines 66, 77: the request uses up the grant; after an SSLError the thread
\* enters wait() once more
Requests(t) ==
    /\ granted' = [granted EXCEPT ![t] = FALSE]
    /\ bare' = IF granted[t] THEN bare ELSE bare \cup {"get_data"}
    /\ queue' = IF tpc'[t] = "lock" THEN Append(queue, t) ELSE queue
    /\ UNCHANGED overtaken

\* stock_list._fetch_from_finmind, line 71: requests.get on the FinMind
\* TaiwanStockInfo endpoint, with no call of _limiter.wait()
FetchFromFinmind(t) ==
    /\ tpc[t] = "idle"
    /\ bare' = IF granted[t] THEN bare ELSE bare \cup {"TaiwanStockInfo"}
    /\ UNCHANGED <<granted, queue, overtaken>>
    /\ UNCHANGED <<min_interval, lock, _last, tpc, wake, attempt, result, grants,
                   now, fetchOnly>>

\* the limiter as config.py builds it
UpstreamInit ==
    /\ FetchInit
    /\ min_interval = MinIntervalOf(FINMIND_QPS)

\* the thread has a step to take that waits for nothing
Busy(t) ==
    \/ tpc[t] \in {"read", "set", "get"}
    \/ tpc[t] = "lock" /\ LockFree(lock)
    \/ tpc[t] = "sleep" /\ now >= wake[t]

\* time passes only while every thread inside get_data is blocked or asleep:
\* the scheduler keeps no runnable thread waiting for a whole tick
UpstreamTick ==
    /\ \A t \in Threads : ~Busy(t)
    /\ FetchTick

UpstreamNext ==
    \/ UpstreamTick
    \/ \E t \in Threads :
         \/ Call(t) /\ Arrives(t)
         \/ Acquire(t) /\ UNCHANGED orderVars
         \/ ReadClock(t) /\ UNCHANGED orderVars
         \/ WakeUp(t) /\ UNCHANGED orderVars
         \/ Grant(t) /\ IsGranted(t)
         \/ Request(t) /\ Requests(t)
         \/ FetchFromFinmind(t)

\* every caller of the FinMind upstream, with the order of arrival at the limiter
UpstreamSpec == UpstreamInit /\ [][UpstreamNext]_vars

\* ------------------------------------------- one evaluation, step by step
\* the loop, the ledger and the limiter as they are while one evaluation runs
IdleLoop ==
    /\ pc = "running"
    /\ stocks = <<1>>
    /\ status = <<"scheduled">>
    /\ wave_lo = 1
    /\ failed = FALSE
    /\ loop_idx = 0
    /\ sent_today = EmptyDict
    /\ signals = {}
    /\ _seen = EmptyDict
    /\ now = StartTime
    /\ webhook = FALSE
    /\ last = NoOp
    /\ lastThrough = EmptyDict

evalOnly == <<pc, stocks, status, wave_lo, failed, loop_idx, sent_today, signals,
              _seen, now, webhook, last, lastThrough, fetchVars, universeVars,
              prefilterVars, sslVars, ctxVars, backtestVars>>

\* process_stock past line 48: the price frame has at least 20 rows
EvalInit ==
    /\ InitFetch(FINMIND_QPS)
    /\ IdleLoop
    /\ rpc = "fund"
    /\ kwargs \in SUBSET RouterKwargs
    /\ requests = 0
    /\ http = "none"
    /\ fund_data = NoFund
    /\ news_ranked = <<>>
    /\ df \in SampleFrames
    /\ results = <<>>
    /\ raisedAt = "none"
    /\ IdleUniverse
    /\ IdlePrefilter
    /\ IdleSsl
    /\ IdleCtx
    /\ IdleBacktest

\* the evaluation ends with the exception of `step`, caught at line 79
EvalRaise(step) ==
    /\ rpc' = "end"
    /\ raisedAt' = step

\* main.py line 51, fetch_fundamental.get_fund_flow lines 43-60: switched off,
\* served from the candidate's cache file, or on to get_data
GetFundFlow ==
    /\ rpc = "fund"
    /\ \/ /\ fund_data' = NoFund
          /\ rpc' = "news"
       \/ /\ fund_data' \in FundFrames
          /\ rpc' = "news"
       \/ /\ rpc' = "get"
          /\ UNCHANGED fund_data
    /\ UNCHANGED <<kwargs, requests, http, news_ranked, df, results, raisedAt, evalOnly>>

\* get_fund_flow lines 63-75 over get_data lines 64-84: one request and what
\* follows from its answer
FundRequest ==
    /\ rpc = "get"
    /\ requests' = requests + 1
    /\ \E o \in Outcomes :
         LET r == AfterRequest(requests + 1, o) IN
         /\ http' = o
         /\ IF r = "retry"
            THEN UNCHANGED <<rpc, fund_data, raisedAt>>
            ELSE IF r = "raised"
            THEN EvalRaise("fund") /\ UNCHANGED fund_data
            ELSE /\ rpc' = "news"
                 /\ UNCHANGED raisedAt
                 /\ IF r = "empty"
                    THEN fund_data' = NoFund
                    ELSE fund_data' \in FundFrames \cup {NoFund}
    /\ UNCHANGED <<kwargs, news_ranked, df, results, evalOnly>>

\* main.py lines 54-55: link_news_to_stock and rank_news
LinkNews ==
    /\ rpc = "news"
    /\ \/ /\ news_ranked' \in NewsLists
          /\ rpc' = "technical"
          /\ UNCHANGED raisedAt
       \/ /\ EvalRaise("news")
          /\ UNCHANGED news_ranked
    /\ UNCHANGED <<kwargs, requests, http, fund_data, df, results, evalOnly>>

\* run_all_strategies line 147
RouterTechnical ==
    /\ rpc = "technical"
    /\ results' = Append(results, strategy_technical(df))
    /\ rpc' = "fundamental"
    /\ UNCHANGED <<kwargs, requests, http, fund_data, news_ranked, df, raisedAt, evalOnly>>

\* run_all_strategies line 148
RouterFundamental ==
    /\ rpc = "fundamental"
    /\ IF fundamental_raises(fund_data)
       THEN /\ EvalRaise("fundamental")
            /\ UNCHANGED results
       ELSE /\ results' = Append(results, strategy_fundamental(fund_data))
            /\ rpc' = "newsrule"
            /\ UNCHANGED raisedAt
    /\ UNCHANGED <<kwargs, requests, http, fund_data, news_ranked, df, evalOnly>>

\* run_all_strategies lines 149-153: pos_threshold is passed by name and once
\* more inside **kwargs when the caller gave it, which is a TypeError
RouterNews ==
    /\ rpc = "newsrule"
    /\ IF "pos_threshold" \in kwargs
       THEN /\ EvalRaise("router")
            /\ UNCHANGED results
       ELSE /\ results' = Append(results, strategy_news(news_ranked, POS_THRESHOLD))
            /\ rpc' = "triggers"
            /\ UNCHANGED raisedAt
    /\ UNCHANGED <<kwargs, requests, http, fund_data, news_ranked, df, evalOnly>>

\* main.py lines 59-61: the triggered results
triggers == {i \in DOMAIN results : results[i].triggered}

\* main.py lines 59-61: nothing triggered, or on to the notification
Triggers ==
    /\ rpc = "triggers"
    /\ rpc' = IF triggers = {} THEN "end" ELSE "notify"
    /\ UNCHANGED <<kwargs, requests, http, fund_data, news_ranked, df, results,
                   raisedAt, evalOnly>>

EvalNext ==
    \/ GetFundFlow
    \/ FundRequest
    \/ LinkNews
    \/ RouterTechnical
    \/ RouterFundamental
    \/ RouterNews
    \/ Triggers

\* one evaluation of process_stock from line 51 to line 61
EvalSpec == EvalInit /\ [][EvalNext]_vars

\* run_all_strategies called on every price frame, on every fund-flow frame
\* and on every news list, one argument varying at a time
RouterInit ==
    /\ InitFetch(FINMIND_QPS)
    /\ IdleLoop
    /\ rpc = "technical"
    /\ kwargs \in SUBSET RouterKwargs
    /\ requests = 0
    /\ http = "none"
    /\ \/ /\ df \in Frames
          /\ fund_data = NoFund
          /\ news_ranked = <<>>
       \/ /\ df \in SampleFrames
          /\ fund_data \in FundFrames \cup SparseFundFrames
          /\ news_ranked = <<>>
       \/ /\ df \in SampleFrames
          /\ fund_data = NoFund
          /\ news_ranked \in NewsCases
    /\ results = <<>>
    /\ raisedAt = "none"
    /\ IdleUniverse
    /\ IdlePrefilter
    /\ IdleSsl
    /\ IdleCtx
    /\ IdleBacktest

RouterNext ==
    \/ RouterTechnical
    \/ RouterFundamental
    \/ RouterNews
    \/ Triggers

\* run_all_strategies and the filter of main.py lines 58-61
RouterSpec == RouterInit /\ [][RouterNext]_vars

\* ------------------------------------------------------------ the universe
universeOnly == <<pc, stocks, status, wave_lo, failed, loop_idx, sent_today, signals,
                  _seen, now, webhook, last, lastThrough, fetchVars, evalVars,
                  prefilterVars, sslVars, ctxVars, backtestVars>>

\* get_all_stocks(use_cache=u), lines 114-144; a, b: what FinMind and the TWSE
\* OpenAPI yield if asked; written: _save_cache manages to write the file
GetAllStocksFrom(u, Lists) ==
    LET cached == CacheHit(u, cache_file, today) IN
    /\ use_cache' = u
    /\ IF cached # <<>>
       THEN /\ returned' = cached
            /\ contacted' = <<>>
            /\ UNCHANGED cache_file
       ELSE \E a \in Lists :
            \E b \in (IF a = <<>> THEN Lists ELSE {<<>>}) :
              /\ returned' = Fallback(a, b)
              /\ contacted' = Consulted(a, b)
              /\ IF a # <<>> \/ b # <<>>
                 THEN \E written \in BOOLEAN :
                        cache_file' = _save_cache(cache_file, returned', today, written)
                 ELSE UNCHANGED cache_file

\* a call of get_all_stocks on its own, over everything a source can yield
GetAllStocks(u) == GetAllStocksFrom(u, SourceLists) /\ UNCHANGED <<today, universeOnly>>

\* midnight passes
NextDay ==
    /\ today < MaxDay
    /\ today' = today + 1
    /\ UNCHANGED <<cache_file, use_cache, returned, contacted, universeOnly>>

UniverseInit ==
    /\ InitFetch(FINMIND_QPS)
    /\ IdleLoop
    /\ IdleEval
    /\ IdlePrefilter
    /\ IdleSsl
    /\ IdleCtx
    /\ IdleBacktest
    /\ cache_file \in CacheFiles
    /\ today = 1
    /\ use_cache = FALSE
    /\ returned = <<>>
    /\ contacted = <<>>

UniverseNext ==
    \/ \E u \in BOOLEAN : GetAllStocks(u)
    \/ NextDay

\* calls of get_all_stocks over the days
UniverseSpec == UniverseInit /\ [][UniverseNext]_vars

\* ------------------------------------------------------------ the prefilter
prefilterOnly == <<pc, stocks, status, wave_lo, failed, loop_idx, sent_today, signals,
                   _seen, now, webhook, last, lastThrough, fetchVars, evalVars,
                   universeVars, sslVars, ctxVars, backtestVars>>

\* one call of get_stocks_under_1500 on the arguments and sources drawn
Prefilter ==
    /\ prefiltered = NoResult
    /\ prefiltered' = get_stocks_under_1500(stock_list, limit, max_checks, batch, serial)
    /\ UNCHANGED <<stock_list, limit, max_checks, batch, serial, prefilterOnly>>

PrefilterInit ==
    /\ InitFetch(FINMIND_QPS)
    /\ IdleLoop
    /\ IdleEval
    /\ IdleUniverse
    /\ IdleSsl
    /\ IdleCtx
    /\ IdleBacktest
    /\ stock_list \in StockLists
    /\ limit \in 0..MaxList
    /\ max_checks \in 0..MaxList
    /\ batch \in Batches
    /\ serial \in PriceMaps
    /\ prefiltered = NoResult

PrefilterNext == Prefilter

\* get_stocks_under_1500 on every list, limit, max_checks and source behaviour
PrefilterSpec == PrefilterInit /\ [][PrefilterNext]_vars

\* ------------------------------------------------- the SSL fallback alone
sslOnly == <<pc, stocks, status, wave_lo, failed, loop_idx, sent_today, signals,
             _seen, now, webhook, last, lastThrough, fetchVars, evalVars,
             universeVars, prefilterVars, ctxVars, backtestVars>>

\* a fetch function is called; the environment has a CA bundle or not
FetchCall ==
    /\ fetcher = "none" \/ ended # "no"
    /\ fetches < MaxFetches
    /\ fetcher' \in Fetchers
    /\ ca_bundle' \in BOOLEAN
    /\ sent' = <<>>
    /\ ended' = "no"
    /\ fetches' = fetches + 1
    /\ UNCHANGED sslOnly

\* the call issues its next request and takes the answer
FetchRequest ==
    /\ fetcher \in Fetchers
    /\ ended = "no"
    /\ \E o \in Outcomes :
         LET k == Len(sent) + 1
             r == AfterAnswer(fetcher, ca_bundle, k, o)
         IN /\ sent' = Append(sent, [verify |-> VerifyOf(fetcher, ca_bundle, k),
                                     answer |-> o])
            /\ ended' = IF r = "retry" THEN "no" ELSE r
    /\ UNCHANGED <<fetcher, ca_bundle, fetches, sslOnly>>

SslInit ==
    /\ InitFetch(FINMIND_QPS)
    /\ IdleLoop
    /\ IdleEval
    /\ IdleUniverse
    /\ IdlePrefilter
    /\ IdleSsl
    /\ IdleCtx
    /\ IdleBacktest

SslNext == FetchCall \/ FetchRequest

\* get_data, _get_with_ssl_fallback and get_json on every sequence of answers
SslSpec == SslInit /\ [][SslNext]_vars

\* ------------------------------------- the loop with its shared context
\* build_aliases, news_linker.py lines 14-23: one entry per row of the list
build_aliases_first_row(l) == IF l = <<>> THEN {} ELSE {l[1]}
build_aliases(l) == {l[i] : i \in DOMAIN l}

\* main.py line 140: the refresh calls get_all_stocks() with its default, use_cache=True
RefreshBypassesCache == FALSE
RefreshUsesCache == TRUE

\* what a source yields while the loop runs: nothing, or one of two universes
ContextLists == {<<>>, <<1>>, <<2, 1>>}
\* the cache file the process finds: none, one of today, one of the day before
ContextFiles == {NoFile, [exists |-> TRUE, rows |-> <<1>>, day |-> 1],
                 [exists |-> TRUE, rows |-> <<2, 1>>, day |-> 0]}

\* what the prefilter can hand back for list l, over every behaviour of its sources
ScanResults(l) ==
    {get_stocks_under_1500(l, SCAN_LIMIT, SCAN_MAX_CHECKS, b, sp).out :
        b \in Batches, sp \in PriceMaps}

\* lines 88-110 and 139-153: news, universe, aliases, prefilter, in this order;
\* only a news fetch can raise, and it is the first statement: went tells
\* whether it did not
Acquire_context(u, went) ==
    IF went
    THEN /\ GetAllStocksFrom(u, ContextLists)
         /\ stock_list' = returned'
         /\ aliases_map' = build_aliases(stock_list')
         /\ stocks' \in ScanResults(stock_list')
         /\ UNCHANGED today
    ELSE UNCHANGED <<stocks, stock_list, aliases_map, universeVars>>

\* the ways the two news fetches of an acquisition can go
NewsWent == {~news_fetch_raises(first, retry) : first \in NewsAnswers, retry \in RetryAnswers}

contextOnly == <<sent_today, signals, _seen, now, webhook, last, lastThrough, fetchVars,
                 evalVars, limit, max_checks, batch, serial, prefiltered, sslVars,
                 backtestVars>>

\* lines 85-110 with the context followed: an exception ends scan_loop
BootstrapContext ==
    /\ pc = "bootstrap"
    /\ \E went \in NewsWent :
         /\ Acquire_context(FALSE, went)
         /\ pc' = IF went THEN "tasks" ELSE "exit"
    /\ UNCHANGED <<status, wave_lo, failed, loop_idx, refreshes, contextOnly>>

\* the record of one periodic refresh: the iteration it followed, the day,
\* and whether the acquisition went through
RefreshRec(n, went) == [at |-> n, day |-> today, done |-> went]

\* lines 135-155 with the context followed: the refresh is inside a try block
IterEndContext ==
    /\ pc = "iter_end"
    /\ loop_idx' = loop_idx + 1
    /\ IF RefreshDue(loop_idx')
       THEN \E went \in NewsWent :
              /\ Acquire_context(RefreshUsesCache, went)
              /\ refreshes' = Append(refreshes, RefreshRec(loop_idx', went))
       ELSE UNCHANGED <<stocks, stock_list, aliases_map, universeVars, refreshes>>
    /\ pc' = "sleep"
    /\ UNCHANGED <<status, wave_lo, failed, contextOnly>>

\* midnight passes while the loop sleeps
Midnight == pc = "sleep" /\ NextDay

ContextInit ==
    /\ InitFetch(FINMIND_QPS)
    /\ IdleEval
    /\ IdlePrefilter
    /\ IdleSsl
    /\ IdleCtx
    /\ IdleBacktest
    /\ cache_file \in ContextFiles
    /\ today = 1
    /\ use_cache = FALSE
    /\ returned = <<>>
    /\ contacted = <<>>
    /\ pc = "bootstrap"
    /\ stocks = <<>>
    /\ status = <<>>
    /\ wave_lo = 1
    /\ failed = FALSE
    /\ loop_idx = 0
    /\ sent_today = EmptyDict
    /\ signals = {}
    /\ _seen = EmptyDict
    /\ now = StartTime
    /\ webhook = FALSE
    /\ last = NoOp
    /\ lastThrough = EmptyDict

ContextNext ==
    \/ BootstrapContext
    \/ MakeTasks
    \/ Gather
    \/ \E i \in 1..Len(stocks) : ProcessStock(i, RouterKwargs)
    \/ WaveDone
    \/ Summary
    \/ IterEndContext
    \/ SleepWithin(MaxRounds)
    \/ Midnight

\* scan_loop over the iterations, with the news, the universe, the alias table
\* and the active set it shares with the evaluations
ContextSpec == ContextInit /\ [][ContextNext]_vars

\* ------------------------------------------------------------------ steps
\* a step in which one evaluation of process_stock ran
EvalStep == \E i \in DOMAIN status : status[i] = "scheduled" /\ status'[i] = "done"
\* a step in which the iteration's summary was attempted
SummaryStep == pc = "summary" /\ pc' = "iter_end"
\* a step in which send_discord_message was called
CallStep == (EvalStep \/ SummaryStep) /\ last'.notify \in CallOutcomes

\* ----------------------------------------------------------------- claims

\* C1: in every reachable state every per-candidate counter is at most
\* MAX_SIGNAL_PER_STOCK and the counters sum to at most MAX_SIGNAL_TOTAL
C1_QuotaInvariant ==
    /\ \A id \in DOMAIN sent_today : sent_today[id] <= MAX_SIGNAL_PER_STOCK
    /\ SumValues(sent_today) <= MAX_SIGNAL_TOTAL

\* both caps are met and a later evaluation was turned away by the pre-check
C1_Witness ==
    /\ \E id \in DOMAIN sent_today : sent_today[id] = MAX_SIGNAL_PER_STOCK
    /\ SumValues(sent_today) = MAX_SIGNAL_TOTAL
    /\ last.op = "eval" /\ last.end = "quota"

\* the signal texts of candidate id that were let through to the webhook
SentTexts(id) == {m \in DOMAIN lastThrough : m.kind = "signal" /\ m.id = id}

C3_GlobalCap ==
    [][(EvalStep /\ SumValues(sent_today) >= MAX_SIGNAL_TOTAL)
         => /\ UNCHANGED <<sent_today, signals, _seen>>
            /\ last'.notify = "none"]_vars

\* the global cap is met and a candidate under its own cap was evaluated
C3_Witness ==
    /\ SumValues(sent_today) = MAX_SIGNAL_TOTAL
    /\ last.op = "eval" /\ last.end = "quota"
    /\ Get(sent_today, last.id, 0) < MAX_SIGNAL_PER_STOCK

\* C4: a call of send_discord_message is suppressed exactly when the same text
\* was let through less than DEDUP_WINDOW_SEC before; otherwise it is let through
C4_DedupWindow ==
    [][CallStep =>
         LET m == last'.msg IN
         (last'.notify = "dup") <=>
             (m \in DOMAIN lastThrough /\ now - lastThrough[m] < DEDUP_WINDOW_SEC)]_vars

\* a text let through before is let through again, the window having elapsed
C4_Witness ==
    /\ last.notify \in ThroughOutcomes
    /\ last.again

\* C5: a suppressed call leaves the dedup table as it was
C5_SuppressedNoEffect ==
    [][(CallStep /\ last'.notify = "dup") => _seen' = _seen]_vars

\* a call was suppressed after time had passed since the let-through send
C5_Witness ==
    /\ last.notify = "dup"
    /\ last.msg \in DOMAIN lastThrough
    /\ lastThrough[last.msg] < now

C7_FailureIsolation ==
    /\ ~failed
    /\ pc = "exit" => status = <<>>
    /\ pc \in {"summary", "iter_end", "sleep"} =>
          \A i \in DOMAIN status : status[i] = "done"

\* log_signal raised in the first task, and the last task of a later wave ran
C7_Witness ==
    /\ pc = "summary" /\ loop_idx = 0
    /\ Len(stocks) > BATCH_SIZE
    /\ SignalMsg(stocks[1], 1) \in DOMAIN lastThrough
    /\ Get(sent_today, stocks[1], 0) = 0
    /\ last.op = "eval" /\ last.id = stocks[Len(stocks)] /\ last.end = "raised"

\* the wave of task i, counted from 0
WaveOf(i) == (i - 1) \div BATCH_SIZE

\* C8: a task of a later wave is started only when every task of the earlier
\* waves has completed, and at most BATCH_SIZE tasks are in flight
C8_WaveBarrier ==
    /\ Cardinality({i \in DOMAIN status : status[i] = "scheduled"}) <= BATCH_SIZE
    /\ \A i, j \in DOMAIN status :
          (WaveOf(i) < WaveOf(j) /\ status[j] # "new") => status[i] = "done"

\* a task of the second wave is in flight
C8_Witness ==
    /\ pc = "running"
    /\ \E j \in DOMAIN status : WaveOf(j) >= 1 /\ status[j] = "scheduled"

\* C9: two consecutive grants of the limiter are at least min_interval apart
C9_LimiterSpacing ==
    Len(grants) = 2 => grants[2] - grants[1] >= min_interval

\* a caller was made to sleep and granted exactly min_interval after the grant
\* before it, while another caller was waiting for the lock
C9_Witness ==
    /\ Len(grants) = 2 /\ grants[2] - grants[1] = min_interval
    /\ \E t \in Threads : wake[t] = grants[2]
    /\ \E t \in Threads : tpc[t] = "lock"

\* C10 (as claimed): get_data never ends by raising
C10_NeverRaises ==
    \A t \in Threads : result[t] # "raised"

\* the rules run_all_strategies has evaluated
Evaluated == {results[i].strategy : i \in DOMAIN results}

\* C11 (as claimed): when the upstream answered 402 to the evaluation's fund-flow
\* request, no further request is issued, fund_data is None and the evaluation,
\* called as main.py calls the router, goes on to evaluate the technical and
\* the news rule (unless linking the news failed)
C11_QuotaExhaustedNonFatal ==
    (kwargs = RouterKwargs /\ http = "402") =>
        /\ rpc # "get"
        /\ fund_data = NoFund
        /\ raisedAt # "fund"
        /\ (rpc \in {"end", "notify"} /\ raisedAt # "news")
              => {"technical", "news"} \subseteq Evaluated

\* a step in which get_all_stocks ran
UniverseStep == today' = today

\* C12: with use_cache a call that finds a non-empty cache file of the current
\* day returns its rows, consults no source and leaves the file as it is;
\* without use_cache every call consults a source
C12_CacheHit ==
    [][UniverseStep =>
         /\ (use_cache' /\ cache_file.exists /\ cache_file.rows # <<>>
                /\ cache_file.day = today)
               => /\ returned' = cache_file.rows
                  /\ contacted' = <<>>
                  /\ cache_file' = cache_file
         /\ ~use_cache' => contacted' # <<>>]_vars

\* a call was served from a cache file written on the same day
C12_Witness ==
    /\ use_cache /\ contacted = <<>>
    /\ cache_file.exists /\ cache_file.day = today /\ today > 1
    /\ returned = cache_file.rows /\ returned # <<>>

\* the sources that yielded candidates in the last call
Winners == {i \in DOMAIN contacted : contacted[i].rows # <<>>}

\* C13: on a cache miss FinMind is asked first, the TWSE OpenAPI only if
\* FinMind yielded nothing, the built-in list is returned only if both yielded
\* nothing, and otherwise the list returned is that of the one source that won
C13_FallbackOrder ==
    contacted # <<>> =>
        /\ contacted[1].source = "finmind"
        /\ Len(contacted) <= 2
        /\ Len(contacted) = 2 =>
              (contacted[1].rows = <<>> /\ contacted[2].source = "twse")
        /\ Winners = {} => (Len(contacted) = 2 /\ returned = BuiltIn)
        /\ \A i \in Winners : returned = contacted[i].rows

\* FinMind yielded nothing and the list of the TWSE OpenAPI was returned
C13_Witness ==
    /\ Len(contacted) = 2
    /\ contacted[2].rows # <<>>
    /\ returned = contacted[2].rows
    /\ returned # BuiltIn

\* C14: every call of get_all_stocks returns a non-empty list
C14_UniverseAvailable ==
    [][UniverseStep => returned' # <<>>]_vars

\* both sources yielded nothing, no cache of the day: the built-in list
C14_Witness ==
    /\ Len(contacted) = 2
    /\ Winners = {}
    /\ returned = BuiltIn
    /\ _load_cache_today(cache_file, today) = <<>>

\* a is an order-preserving subsequence of b (lists of distinct codes)
IsSubseq(a, b) ==
    /\ \A i \in DOMAIN a : \E k \in DOMAIN b : b[k] = a[i]
    /\ \A i, j \in DOMAIN a : i < j =>
          \E k, m \in DOMAIN b : k < m /\ b[k] = a[i] /\ b[m] = a[j]

\* C15 (as claimed): the list returned is an order-preserving subsequence of
\* stock_list with at most limit elements, for every limit >= 0
C15_SubsequenceWithinLimit ==
    prefiltered.tier # "none" =>
        /\ IsSubseq(prefiltered.out, stock_list)
        /\ Len(prefiltered.out) <= limit

\* the batched source answers with a price for every numeric candidate
BatchKnowsAll ==
    /\ batch.does = "answers"
    /\ \A i \in DOMAIN stock_list :
         isdigit(stock_list[i]) => batch.price[stock_list[i]] # 0

\* C16 (as claimed): when the batched source answers without raising, every
\* candidate returned has a known price below max_price (stated for limit >= 1
\* and max_checks >= 1, a batched answer that prices every candidate, and a
\* serial source that agrees with it)
C16_ReturnedArePriced ==
    (prefiltered.tier # "none" /\ BatchKnowsAll /\ serial = batch.price
       /\ limit >= 1 /\ max_checks >= 1) =>
        \A i \in DOMAIN prefiltered.out : Priced(batch.price, prefiltered.out[i])

\* both tiers are unavailable: the batched source fails or raises and every
\* serial lookup comes back without a price
BothTiersFail == batch.does \in {"fails", "raises"} /\ serial = NoPrices

\* C17 (as claimed): when both tiers fail the list returned is the first limit
\* elements of stock_list (stated for limit >= 1)
C17_Passthrough ==
    (prefiltered.tier # "none" /\ BothTiersFail /\ limit >= 1) =>
        prefiltered.out = Take(stock_list, limit)

\* the candidates among the first k that a serial lookup prices below max_price
SerialMatches(k) ==
    LET c == cand(stock_list)
        Below(sid) == Priced(serial, sid)
    IN SelectSeq(SubSeq(c, 1, k), Below)

\* the probe at which a serial walk on its own stops: the first one that
\* completes the target or exhausts max_checks, else the last candidate
SerialStop ==
    LET c == cand(stock_list)
        t == target(limit, c)
        stops == {k \in 1..Len(c) : Len(SerialMatches(k)) >= t \/ k >= max_checks}
    IN IF stops = {} THEN Len(c)
       ELSE CHOOSE k \in stops : \A m \in stops : k <= m

\* what the serial tier on its own returns: its matches, or, having none, the
\* first target candidates
SerialAlone ==
    LET c == cand(stock_list) IN
    IF SerialMatches(SerialStop) # <<>> THEN SerialMatches(SerialStop)
    ELSE Take(c, target(limit, c))

RuleOrder == [i \in DOMAIN results |-> results[i].strategy]

\* C19 (as claimed): run_all_strategies does not raise, whatever keyword options
\* the caller passes, and once it has returned the results are those of the
\* technical, the fundamental and the news rule, in that order (stated for
\* fund-flow frames that have the three category columns)
C19_RouterReturnsThree ==
    ~fundamental_raises(fund_data) =>
        /\ raisedAt # "router"
        /\ rpc \in {"triggers", "end", "notify"} =>
              RuleOrder = <<"technical", "fundamental", "news">>

\* the last close of the frame is above each close of the LOOKBACK rows
\* before it
AboveWindow ==
    LET n == Len(df.close) IN
    \A i \in (n - LOOKBACK)..(n - 1) : df.close[n] > df.close[i]

NetSum ==
    Get(fund_data.net, "Foreign_Investor", 0)
        + Get(fund_data.net, "Investment_Trust", 0)
        + Get(fund_data.net, "Dealer_self", 0)

\* C21 (as claimed): the fundamental rule returns, and triggers exactly when
\* the frame has at least three rows and the three categories' net volumes
\* over the last three rows, a missing category counting as zero, sum to more
\* than the threshold
C21_FundamentalRule ==
    rpc \in {"newsrule", "triggers", "end", "notify"} =>
        /\ Len(results) >= 2
        /\ results[2].triggered <=>
              (fund_data.present /\ fund_data.len >= 3 /\ NetSum > FUND_THRESHOLD)

\* the highest score among the items classified positive is at least t
BestPositiveAtLeast(t) ==
    \E i \in DOMAIN news_ranked :
        /\ news_ranked[i].sentiment = "POSITIVE"
        /\ news_ranked[i].score >= t

\* C22: the news rule triggers exactly when some item is classified positive
\* and the highest score among the positive items is at least the threshold
C22_NewsRule ==
    Len(results) >= 3 =>
        (results[3].triggered <=> BestPositiveAtLeast(POS_THRESHOLD))

\* the rule triggered on a positive item scored exactly the threshold, next to
\* a negative item scored above it
C22_Witness ==
    /\ Len(results) >= 3
    /\ results[3].triggered
    /\ \A i \in DOMAIN news_ranked :
         news_ranked[i].sentiment = "POSITIVE" => news_ranked[i].score = POS_THRESHOLD
    /\ \E i \in DOMAIN news_ranked :
         news_ranked[i].sentiment = "NEGATIVE" /\ news_ranked[i].score > POS_THRESHOLD

\* C23 (as claimed): whatever fails, scan_loop does not terminate
C23_LoopStaysAlive == pc # "exit"

\* the driver's state at a place of the program; the exit of scan_loop by an
\* exception ends the process as well
Phase(p) ==
    IF p = "bootstrap" THEN "BOOTSTRAP"
    ELSE IF p = "drain" THEN "DRAIN"
    ELSE IF p \in {"stopped", "exit"} THEN "STOPPED"
    ELSE "RUNNING"

\* the driver's transitions; an interrupt during BOOTSTRAP is drained too
PhaseMoves ==
    {<<"BOOTSTRAP", "RUNNING">>, <<"BOOTSTRAP", "DRAIN">>, <<"RUNNING", "DRAIN">>,
     <<"DRAIN", "STOPPED">>}

\* C24 (as claimed): the driver changes state only along BOOTSTRAP, RUNNING,
\* DRAIN, STOPPED; DRAIN is one summary attempt, whatever its outcome, and then
\* STOPPED; and nothing happens after STOPPED
C24_DriverStates ==
    [][/\ Phase(pc') # Phase(pc) => <<Phase(pc), Phase(pc')>> \in PhaseMoves
       /\ Phase(pc) = "DRAIN" =>
             /\ Phase(pc') = "STOPPED"
             /\ last'.op = "drain"
             /\ sent_today' = sent_today /\ signals' = signals
       /\ Phase(pc) # "STOPPED"]_vars

\* the condition of at least one rule holds on the evaluation's inputs
RuleHolds ==
    \/ strategy_technical(df).triggered
    \/ strategy_fundamental(fund_data).triggered
    \/ strategy_news(news_ranked, POS_THRESHOLD).triggered

\* C25 (as claimed): an evaluation as scan_loop invokes it, whose fetches and
\* news ranking did not fail and for which the condition of some rule holds,
\* goes on to the notification, the log record and the increment
C25_TriggeringEvaluationNotifies ==
    (kwargs = RouterKwargs /\ RuleHolds /\ raisedAt \notin {"fund", "news"}) =>
        rpc # "end"

C27_EveryRequestGranted == bare = {}

\* C28 (as claimed): a caller inside wait() that a later arrival has overtaken
\* is granted within one limiter interval of that grant
C28_BoundedOvertaking ==
    \A t \in Threads : overtaken[t] # 0 => now - overtaken[t] <= min_interval

\* C30 (as claimed): what get_all_stocks returns after a cache miss is in the
\* same-day cache when the call returns, so that a call with use_cache=True
\* that follows at once returns the same list (stated for the calls in which
\* no source yielded a list, where no write can have failed)
C30_MissPersisted ==
    [][(UniverseStep /\ contacted' # <<>>
          /\ \A i \in DOMAIN contacted' : contacted'[i].rows = <<>>)
         => CacheHit(TRUE, cache_file', today') = returned']_vars


\* C29: within one call of get_data, _get_with_ssl_fallback or get_json, at most
\* one request goes out with verification disabled; it directly follows a request
\* that failed verification, nothing follows it, and a call that has ended never
\* ended on a verification failure of a verified request.
C29_SslRetryOnce ==
    /\ Cardinality({i \in DOMAIN sent : sent[i].verify = "off"}) <= 1
    /\ \A i \in DOMAIN sent :
         sent[i].verify = "off" =>
             /\ i > 1
             /\ sent[i - 1].answer = "ssl"
             /\ i = Len(sent)
    /\ (ended # "no" /\ sent # <<>> /\ sent[Len(sent)].answer = "ssl")
          => sent[Len(sent)].verify = "off"

\* a call gave up: its verification-disabled request failed verification too
C29_Witness ==
    /\ ended = "raised"
    /\ Len(sent) >= 2
    /\ sent[Len(sent)].verify = "off"
    /\ sent[Len(sent)].answer = "ssl"
    /\ sent[Len(sent) - 1].answer = "ssl"


\* the batched source answered and priced no numeric candidate below max_price
BatchedFoundNone ==
    /\ batch.does = "answers"
    /\ \A i \in DOMAIN stock_list :
         isdigit(stock_list[i]) => ~Priced(batch.price, stock_list[i])

\* C31 (as claimed): when the batched lookups complete without raising and
\* price no candidate below max_price, the call returns nothing and makes no
\* serial lookup (stated for limit >= 1 and max_checks >= 1)
C31_SerialOnlyAfterRaise ==
    (prefiltered.tier # "none" /\ BatchedFoundNone /\ limit >= 1 /\ max_checks >= 1) =>
        /\ prefiltered.out = <<>>
        /\ prefiltered.probes = 0

\* C32 (as claimed): the serial tier never probes more than max_checks
\* candidates, for every max_checks >= 0 (stated for limit >= 1)
C32_SerialProbesBounded ==
    (prefiltered.tier \in {"serial", "passthrough"} /\ limit >= 1) =>
        prefiltered.probes <= max_checks

\* what the batched tier selects from the prices the serial source knows
BatchedOnSerialPrices ==
    LET c == cand(stock_list)
        t == target(limit, c)
    IN Take(BatchedWalk(c, 1, <<>>, serial, t), t)

\* C33 (as claimed): from the same candidate list, limit and prices the serial
\* tier selects the candidates the batched tier selects (stated for limit >= 1
\* and max_checks >= 1, and for calls the serial tier answered with matches)
C33_TiersAgree ==
    (prefiltered.tier = "serial" /\ limit >= 1 /\ max_checks >= 1) =>
        prefiltered.out = BatchedOnSerialPrices


\* C34: the periodic refreshes run so far are exactly those after the
\* iterations REFRESH_EVERY, 2 * REFRESH_EVERY, ... completed so far, one each,
\* and when an iteration is counted and the loop sleeps, the last thing done
\* was the iteration's summary, every evaluation of the iteration being over
C34_RefreshCadence ==
    /\ Len(refreshes) = loop_idx \div REFRESH_EVERY
    /\ \A i \in DOMAIN refreshes : refreshes[i].at = i * REFRESH_EVERY
    /\ pc \in {"iter_end", "sleep"} =>
          /\ last.op = "summary"
          /\ \A i \in DOMAIN status : status[i] = "done"

\* two refreshes have run and the iteration after the second is done
C34_Witness ==
    /\ pc = "sleep"
    /\ loop_idx = 2 * REFRESH_EVERY + 1
    /\ Len(refreshes) = 2
    /\ refreshes[2].at = 2 * REFRESH_EVERY
    /\ stocks # <<>>


\* C35: a call of send_discord_message whose post failed ends the evaluation or
\* the summary normally; the time of the attempt stays in the dedup table; and
\* an evaluation whose log_signal went through has persisted its record and
\* incremented the candidate's counter
C35_DeliveryFailureKeepsBooks ==
    [][((EvalStep \/ SummaryStep) /\ last'.notify = "postfail") =>
         /\ ~failed'
         /\ last'.end \in {"sent", "logfail"}
         /\ Get(_seen', _hash_msg(last'.msg), 0) = now
         /\ (EvalStep /\ last'.end = "sent") =>
               /\ signals' = signals \cup {<<last'.id, Get(sent_today, last'.id, 0) + 1>>}
               /\ sent_today' = Put(sent_today, last'.id, Get(sent_today, last'.id, 0) + 1)]_vars

\* the post of a signal failed and the signal was logged and counted
C35_Witness ==
    /\ last.op = "eval"
    /\ last.notify = "postfail"
    /\ last.end = "sent"
    /\ Get(sent_today, last.id, 0) = 1
    /\ <<last.id, 1>> \in signals
    /\ Get(_seen, _hash_msg(last.msg), 0) = now


\* the task an evaluation step completes
Evaluated_task == CHOOSE i \in DOMAIN status : status[i] = "scheduled" /\ status'[i] = "done"

\* C36: an evaluation step completes exactly one task, the first of the wave
\* still scheduled; it is turned away exactly when the counters of the state it
\* starts in meet a cap; and when it counts, it adds one to the count it read,
\* within both caps
C36_QuotaSerialized ==
    [][EvalStep =>
         LET i     == Evaluated_task
             id    == stocks[i]
             count == Get(sent_today, id, 0)
         IN /\ \A j \in DOMAIN status : j # i => status'[j] = status[j]
            /\ \A j \in 1..(i - 1) : status[j] # "scheduled"
            /\ last'.id = id
            /\ (last'.end = "quota") <=> QuotaReached(count, SumValues(sent_today))
            /\ sent_today' # sent_today =>
                  /\ sent_today' = Put(sent_today, id, count + 1)
                  /\ count + 1 <= MAX_SIGNAL_PER_STOCK
                  /\ SumValues(sent_today') <= MAX_SIGNAL_TOTAL]_vars

\* in one wave the first evaluation sent the signal that used up the global cap
\* and the second, of a candidate never counted, was turned away
C36_Witness ==
    /\ pc = "running"
    /\ wave_lo = 1
    /\ Len(stocks) >= 2
    /\ status[1] = "done" /\ status[2] = "done"
    /\ last.op = "eval" /\ last.end = "quota" /\ last.id = stocks[2]
    /\ Get(sent_today, stocks[2], 0) = 0
    /\ SumValues(sent_today) = MAX_SIGNAL_TOTAL
    /\ now > StartTime
    /\ SignalMsg(stocks[1], 1) \in DOMAIN lastThrough
    /\ lastThrough[SignalMsg(stocks[1], 1)] = now


\* C37: while scan_loop is past the bootstrap, the alias table has an entry
\* for every candidate of the active set, and table and active set come from
\* the universe the loop holds
C37_AliasesCoverActiveSet ==
    pc \notin {"bootstrap", "exit"} =>
        /\ \A i \in DOMAIN stocks : stocks[i] \in aliases_map
        /\ aliases_map = {stock_list[i] : i \in DOMAIN stock_list}
        /\ IsSubseq(stocks, stock_list)

\* a refresh replaced the universe and the next refresh failed in its news fetch
C37_Witness ==
    /\ pc = "sleep"
    /\ Len(refreshes) = 2
    /\ refreshes[1].done
    /\ ~refreshes[2].done
    /\ stock_list = <<2, 1>>
    /\ stocks # <<>>
    /\ stocks # Take(stock_list, Len(stocks))


\* a step in which a periodic refresh ran and went through
RefreshStep ==
    /\ pc = "iter_end" /\ pc' = "sleep"
    /\ Len(refreshes') = Len(refreshes) + 1
    /\ refreshes'[Len(refreshes')].done

\* C38: a refresh that finds the cache holding a universe written on the
\* current day takes that universe, asks no source and leaves the file alone;
\* and the universe it takes is the one the refresh before it took, if that one
\* ran on the same day
C38_CachedUniverseStable ==
    [][(RefreshStep /\ CacheHit(TRUE, cache_file, today) # <<>>) =>
         /\ contacted' = <<>>
         /\ stock_list' = cache_file.rows
         /\ cache_file' = cache_file
         /\ (refreshes # <<>> /\ refreshes[Len(refreshes)].done
               /\ refreshes[Len(refreshes)].day = today) => stock_list' = stock_list]_vars

\* two refreshes of one day: the first asked a source and wrote the cache, the
\* second was served the same universe from it
C38_Witness ==
    /\ pc = "sleep"
    /\ Len(refreshes) = 2
    /\ refreshes[1].done /\ refreshes[2].done
    /\ refreshes[1].day = refreshes[2].day
    /\ today = 1
    /\ use_cache /\ contacted = <<>>
    /\ cache_file = [exists |-> TRUE, rows |-> <<2, 1>>, day |-> 1]
    /\ stock_list = <<2, 1>>


\* ------------------------------------------------------------ the backtest
\* backtest_engine.BacktestEngine, followed from construction to the end of one
\* call of run_backtest.  The rows of df_price stay in the order the caller
\* gave them: __init__ resets the index and converts the dates (lines 8-9)
\* and nothing sorts.  The institutional rows and the news of a day
\* (lines 28-41) only feed the strategy, whose answer is any action here.
MaxRows == 3
BacktestDates == {1, 2}
BacktestCloses == {0, 1, 2}
BacktestRows == [date : BacktestDates, close : BacktestCloses]

\* signal.get('action'): an action other than these two, or none, is "hold"
SignalActions == {"buy", "sell", "hold"}

backtestOnly == <<pc, stocks, status, wave_lo, failed, loop_idx, sent_today, signals,
                  _seen, now, webhook, last, lastThrough, fetchVars, evalVars,
                  universeVars, prefilterVars, sslVars, ctxVars>>

\* lines 50-54: the position a 'buy' opens on a row
OpenedOn(row, why) ==
    <<[entry_date |-> row.date, entry_price |-> row.close, reason |-> why]>>

\* lines 58 and 74: (exit - entry) / entry, kept as the two numbers of the quotient
Profit(entry, exit) == [gain |-> exit - entry, over |-> entry]

\* lines 59-67 and 75-83
TradeRecord(pos, date, price, why) ==
    [entry_date   |-> pos.entry_date,
     entry_price  |-> pos.entry_price,
     exit_date    |-> date,
     exit_price   |-> price,
     profit       |-> Profit(pos.entry_price, price),
     reason_entry |-> pos.reason,
     reason_exit  |-> why]

\* the division of lines 58 and 74 by an entry price of 0: ZeroDivisionError for
\* Python numbers, inf or nan for numpy ones
DivisionEnds(entry) == IF entry = 0 THEN {"raised", "returned"} ELSE {"returned"}

\* lines 71-85 for an open position pos, with px the close of the row and date
\* the date of the row the trade is closed on
Close(pos, date, px, why, after) ==
    \E o \in DivisionEnds(pos.entry_price) :
        IF o = "raised"
        THEN /\ bpc' = "raised"
             /\ UNCHANGED <<position, trades, rows_done>>
        ELSE /\ trades' = Append(trades, TradeRecord(pos, date, px, why))
             /\ position' = <<>>
             /\ bpc' = after
             /\ rows_done' = IF after = "loop" THEN rows_done + 1 ELSE rows_done

\* lines 24-69: one pass of the loop
RunRow ==
    /\ bpc = "loop"
    /\ rows_done < Len(df_price)
    /\ LET row == df_price[rows_done + 1] IN
       IF ~strategy_func
       THEN /\ bpc' = "raised"
            /\ UNCHANGED <<position, trades, signal, opened, rows_done>>
       ELSE \E a \in SignalActions :
              /\ signal' = a
              /\ IF position = <<>>
                 THEN /\ position' = IF a = "buy" THEN OpenedOn(row, a) ELSE <<>>
                      /\ opened' = IF a = "buy" THEN opened + 1 ELSE opened
                      /\ rows_done' = rows_done + 1
                      /\ UNCHANGED <<trades, bpc>>
                 ELSE /\ opened' = opened
                      /\ IF a = "sell"
                         THEN Close(position[1], row.date, row.close, a, "loop")
                         ELSE /\ rows_done' = rows_done + 1
                              /\ UNCHANGED <<position, trades, bpc>>
    /\ UNCHANGED <<df_price, strategy_func, backtestOnly>>

\* lines 71-85: the forced close after the last row, and the return
ForceClose ==
    /\ bpc = "loop"
    /\ rows_done = Len(df_price)
    /\ IF position # <<>>
       THEN Close(position[1], df_price[Len(df_price)].date,
                  df_price[Len(df_price)].close, "forced", "returned")
       ELSE /\ bpc' = "returned"
            /\ UNCHANGED <<position, trades, rows_done>>
    /\ UNCHANGED <<df_price, strategy_func, signal, opened, backtestOnly>>

\* lines 4-21: a constructed engine; an empty df_price raised in __init__
BacktestInit ==
    /\ InitFetch(FINMIND_QPS)
    /\ IdleLoop
    /\ IdleEval
    /\ IdleUniverse
    /\ IdlePrefilter
    /\ IdleSsl
    /\ IdleCtx
    /\ df_price \in {r \in SeqsUpTo(BacktestRows, MaxRows) : r # <<>>}
    /\ strategy_func \in BOOLEAN
    /\ rows_done = 0
    /\ position = <<>>
    /\ trades = <<>>
    /\ signal = "none"
    /\ opened = 0
    /\ bpc = "loop"

BacktestNext == RunRow \/ ForceClose

BacktestSpec == BacktestInit /\ [][BacktestNext]_vars


\* one pass of the loop opens a position only on 'buy' while flat and closes
\* one only on 'sell' while holding, and it does so whenever that signal comes
\* (a close by 'sell' can be lost to the division of line 58 alone, which ends
\* the call)
BacktestStepRule ==
    [][(bpc = "loop" /\ rows_done' = rows_done + 1) =>
         /\ (position = <<>> /\ position' # <<>>) <=> (position = <<>> /\ signal' = "buy")
         /\ (position # <<>> /\ position' = <<>>) <=> (position # <<>> /\ signal' = "sell")
         /\ Len(position') <= 1]_vars

\* the positions opened are the trades recorded plus the one still open
OnePositionOneTrade ==
    /\ Len(position) <= 1
    /\ opened = Len(trades) + Len(position)
    /\ bpc = "returned" => (position = <<>> /\ Len(trades) = opened)

\* the rows of df_price are in date order
RowsInDateOrder ==
    \A k \in 1..(Len(df_price) - 1) : df_price[k].date <= df_price[k + 1].date

\* every recorded trade enters no later than it exits
EntryNotAfterExit ==
    \A k \in DOMAIN trades : trades[k].entry_date <= trades[k].exit_date

\* on rows in date order every trade enters no later than it exits
InOrderOnSortedRows == RowsInDateOrder => EntryNotAfterExit

\* C39: run_backtest holds at most one open position at any step, and when it
\* returns the position is None and every opened position has produced exactly
\* one trade record whose entry date is not after its exit date.
C39_OnePositionClosedInOrder ==
    /\ OnePositionOneTrade
    /\ bpc = "returned" => EntryNotAfterExit

====
